---------------------------- MODULE Spec2Model ----------------------------
(***************************************************************************)
(* The LLM response cache of one-api (package model, llm_cache.go):        *)
(* GenerateCacheKey, the map llmCache guarded by llmCacheMutex, the        *)
(* counters llmCacheStats, the package-level settings LLMCache* that the   *)
(* cache operations read, and the record llmCacheConfig that               *)
(* UpdateLLMCacheConfig replaces.                                          *)
(*                                                                         *)
(* GetLLMCache is modelled step by step (its counter updates are plain     *)
(* read-modify-write sequences executed under the READ lock, and its       *)
(* expiry path drops the read lock before it takes the write lock).  A     *)
(* section executed entirely under the write lock is one atomic action     *)
(* enabled when nobody holds the lock.                                     *)
(***************************************************************************)
EXTENDS Integers, Sequences, FiniteSets, Bags, TLC

\* ------------------------------------------------------------------ bounds
\* The clock (time.Now().Unix()) runs over 0..MaxTime.
MaxTime == 2
\* Response texts have a length in 0..MaxLen.
MaxLen == 3
\* Number of cache operations started in one behaviour.
MaxOps == 3

\* Request-handling goroutines.
Threads == {"t1", "t2"}
\* Values the process may start with in LLMCacheTTL, LLMCacheMaxSize,
\* LLMCacheMinResponseLength and LLMCacheMaxResponseLength.
TTLs == {1}
MaxSizes == {1}
MinLengths == {1}
MaxLengths == {2}

\* ------------------------------------------------------- GenerateCacheKey
\* A request as the middleware decodes it: the eight fields GenerateCacheKey
\* reads and two it does not (User, N).  A nil *float64 is "null".
BaseRequest ==
  [Model |-> "m1", Messages |-> <<"q1", "q2">>, MaxTokens |-> 0,
   Temperature |-> "null", TopP |-> "null", FrequencyPenalty |-> "0",
   PresencePenalty |-> "0", Stream |-> FALSE, User |-> "u1", N |-> "null"]

AllRequests ==
  [Model : {"m1", "m2"}, Messages : {<<"q1", "q2">>, <<"q2", "q1">>},
   MaxTokens : {0, 16}, Temperature : {"null", "0.7"}, TopP : {"null", "0.9"},
   FrequencyPenalty : {"0", "0.5"}, PresencePenalty : {"0", "0.5"},
   Stream : BOOLEAN, User : {"u1", "u2"}, N : {"null", "2"}]

RequestFields ==
  {"Model", "Messages", "MaxTokens", "Temperature", "TopP",
   "FrequencyPenalty", "PresencePenalty", "Stream", "User", "N"}

DiffFields(a, b) == {f \in RequestFields : a[f] # b[f]}

\* The requests of the model: BaseRequest and those one field away from it.
Requests == {r \in AllRequests : Cardinality(DiffFields(r, BaseRequest)) <= 1}

\* CacheData without the stream flag of the request.
CacheDataNoStream(request) ==
  [model |-> request.Model,
   messages |-> request.Messages,
   max_tokens |-> request.MaxTokens,
   temperature |-> request.Temperature,
   top_p |-> request.TopP,
   frequency_penalty |-> request.FrequencyPenalty,
   presence_penalty |-> request.PresencePenalty,
   stream |-> FALSE]

\* cacheData: the map literal of GenerateCacheKey.
CacheData(request) ==
  [model |-> request.Model,
   messages |-> request.Messages,
   max_tokens |-> request.MaxTokens,
   temperature |-> request.Temperature,
   top_p |-> request.TopP,
   frequency_penalty |-> request.FrequencyPenalty,
   presence_penalty |-> request.PresencePenalty,
   stream |-> request.Stream]

\* json.Marshal of a map writes its keys in sorted order: the encoding is
\* the sequence of (name, value) members in that order.
JsonMarshal(cacheData) ==
  << <<"frequency_penalty", cacheData.frequency_penalty>>,
     <<"max_tokens", cacheData.max_tokens>>,
     <<"messages", cacheData.messages>>,
     <<"model", cacheData.model>>,
     <<"presence_penalty", cacheData.presence_penalty>>,
     <<"stream", cacheData.stream>>,
     <<"temperature", cacheData.temperature>>,
     <<"top_p", cacheData.top_p>> >>

\* json.Marshal fails on a value JSON cannot represent; a request decoded
\* from JSON holds none.
MarshalFails(cacheData) == FALSE

\* sha256.Sum256, taken as injective: the digest stands for its input.
Sum256(jsonData) == <<"sha256", jsonData>>

KeyPrefix == "llm_cache:"

GenerateCacheKey(request) ==
  LET cacheData == CacheData(request)
  IN  IF MarshalFails(cacheData)
        THEN << >>
        ELSE <<KeyPrefix, Sum256(JsonMarshal(cacheData))>>

\* ------------------------------------------------------------------ state
\* The requests whose keys the cache operations of the model use.
CacheRequests ==
  {BaseRequest, [BaseRequest EXCEPT !.Model = "m2"]}

Keys == {GenerateCacheKey(r) : r \in CacheRequests}

VARIABLES
  LLMCacheEnabled,            \* package variable, read by Get and Set
  LLMCacheTTL,
  LLMCacheMaxSize,
  LLMCacheMinResponseLength,
  LLMCacheMaxResponseLength,
  llmCacheConfig,             \* the record UpdateLLMCacheConfig replaces
  llmCache,                   \* map key -> item (a function on the stored keys)
  llmCacheStats,              \* TotalItems, Hits, Misses, Evictions
  inited,                     \* InitLLMCache has run
  sweeper,                    \* the cleanExpiredCache goroutine runs
  now,                        \* time.Now().Unix()
  readers,                    \* goroutines holding llmCacheMutex.RLock
  pc, tkey, tmp, titem,       \* per goroutine: position and locals
  ret,                        \* per goroutine: what its last call returned
  last,                       \* the handler that completed last
  nops,                       \* operations started
  found,                      \* GetLLMCache calls that returned found since
                              \* llmCacheStats was last replaced
  r1, r2, k1, k2,             \* two requests and their keys (SpecKey)
  RedisEnabled,               \* common.RedisEnabled
  RedisFails,                 \* the Redis server is failing
  tasks,                      \* the detached Redis goroutines not yet run
  mirror,                     \* Redis: key -> the time the key expires at
  deleted,                    \* keys whose Redis removal was requested and
                              \* that were not stored again since
  listed                      \* the items a GetLLMCacheItems result still
                              \* points at, as they were when it returned

settings ==
  <<LLMCacheEnabled, LLMCacheTTL, LLMCacheMaxSize,
    LLMCacheMinResponseLength, LLMCacheMaxResponseLength>>
keyVars == <<r1, r2, k1, k2>>
mirrorVars == <<RedisEnabled, RedisFails, tasks, mirror, deleted>>
locals == <<pc, tkey, tmp, titem>>
vars ==
  <<settings, llmCacheConfig, llmCache, llmCacheStats, inited, sweeper, now,
    readers, locals, ret, last, nops, found, keyVars,
                 mirrorVars, listed>>

NoKey == << >>
NoItem == [CreatedAt |-> 0, ExpiresAt |-> 0, HitCount |-> 0, LastAccessed |-> 0]
EmptyCache == [k \in {} |-> NoItem]
ZeroStats == [TotalItems |-> 0, Hits |-> 0, Misses |-> 0, Evictions |-> 0]

\* The literal of the llmCacheConfig declaration (SimilarityThreshold, which
\* nothing reads, is left out).
DefaultConfig ==
  [Enabled |-> FALSE, TTL |-> 3600, MaxSize |-> 10000,
   MinResponseLength |-> 10, MaxResponseLength |-> 10000]

\* Configurations an administrator may post.
Configs ==
  [Enabled : BOOLEAN, TTL : {2}, MaxSize : {2},
   MinResponseLength : {2}, MaxResponseLength : {2}]

\* Responses: no choice at all, or one choice with a text of some length.
Responses ==
  {[Choices |-> 0, Len |-> 0]} \cup {[Choices |-> 1, Len |-> n] : n \in 0..MaxLen}

Size(cache) == Cardinality(DOMAIN cache)

Remove(cache, k) == [j \in DOMAIN cache \ {k} |-> cache[j]]

Put(cache, k, item) ==
  [j \in DOMAIN cache \cup {k} |-> IF j = k THEN item ELSE cache[j]]

\* ------------------------------------------------------------------ Redis
NoTasks == EmptyBag

\* A detached goroutine: go func() { ... RedisSetEx(key, ...) }(),
\* go common.RedisDel(key), go func() { RedisKeys(...); RedisDel each }().
\* keys is the list a clearing goroutine still has to delete.
SetTask(k) == [op |-> "set", key |-> k, keys |-> {}]
DelTask(k) == [op |-> "del", key |-> k, keys |-> {}]
ClearTask == [op |-> "clear", key |-> NoKey, keys |-> {}]
ClearDelTask(S) == [op |-> "clear_del", key |-> NoKey, keys |-> S]

\* if common.RedisEnabled { go ... }: the goroutine is started and the
\* handler goes on; removed are the keys the handler asks Redis to drop,
\* stored the key it asks Redis to hold.
Spawn(task, removed, stored) ==
  IF RedisEnabled
    THEN /\ tasks' = tasks (+) SetToBag({task})
         /\ deleted' = (deleted \cup removed) \ stored
    ELSE UNCHANGED <<tasks, deleted>>

\* The keys Redis holds at the time clock: a key set with an expiry is gone
\* once the expiry has passed.
RedisKeys(store, clock) == {k \in DOMAIN store : clock < store[k]}

\* SETEX key ttl value
RedisSetEx(store, k, ttl, clock) ==
  [j \in RedisKeys(store, clock) \cup {k} |->
     IF j = k THEN clock + ttl ELSE store[j]]

\* DEL key
RedisDel(store, k, clock) ==
  [j \in RedisKeys(store, clock) \ {k} |-> store[j]]

\* The pointers of a GetLLMCacheItems result that still point into the map
\* once the map has dropped or replaced the items under the keys gone.
StillListed(gone) == [k \in DOMAIN listed \ gone |-> listed[k]]

CacheInit ==
  /\ LLMCacheEnabled \in BOOLEAN
  /\ LLMCacheTTL \in TTLs
  /\ LLMCacheMaxSize \in MaxSizes
  /\ LLMCacheMinResponseLength \in MinLengths
  /\ LLMCacheMaxResponseLength \in MaxLengths
  /\ llmCacheConfig = DefaultConfig
  /\ llmCache = EmptyCache
  /\ llmCacheStats = ZeroStats
  /\ inited = FALSE
  /\ sweeper = FALSE
  /\ now = 0
  /\ readers = 0
  /\ pc = [t \in Threads |-> "idle"]
  /\ tkey = [t \in Threads |-> NoKey]
  /\ tmp = [t \in Threads |-> 0]
  /\ titem = [t \in Threads |-> NoItem]
  /\ ret = [t \in Threads |-> "none"]
  /\ last = "none"
  /\ nops = 0
  /\ found = 0
  /\ tasks = NoTasks
  /\ mirror = [k \in {} |-> 0]
  /\ deleted = {}
  /\ listed = EmptyCache

\* Redis is not configured: common.RedisEnabled is false.
Init ==
  /\ CacheInit
  /\ RedisEnabled = FALSE /\ RedisFails = FALSE
  /\ r1 = BaseRequest /\ r2 = BaseRequest
  /\ k1 = NoKey /\ k2 = NoKey

\* --------------------------------------------------------------- helpers
Idle(t) == pc[t] = "idle" /\ inited /\ nops < MaxOps

\* llmCacheMutex.Lock() succeeds when no goroutine holds the lock; a section
\* run under the write lock is one action, so no state has a writer in it.
CanLock == readers = 0

Return(t, op, res) ==
  /\ ret' = [ret EXCEPT ![t] = res]
  /\ last' = op

Reset(t) ==
  /\ pc' = [pc EXCEPT ![t] = "idle"]
  /\ tkey' = [tkey EXCEPT ![t] = NoKey]
  /\ tmp' = [tmp EXCEPT ![t] = 0]
  /\ titem' = [titem EXCEPT ![t] = NoItem]

\* ------------------------------------------------------------ InitLLMCache
InitLLMCache ==
  /\ ~inited
  /\ inited' = TRUE
  /\ sweeper' = LLMCacheEnabled
  /\ last' = "InitLLMCache"
  /\ UNCHANGED <<settings, llmCacheConfig, llmCache, llmCacheStats, now,
                 readers, locals, ret, nops, found, keyVars,
                 mirrorVars, listed>>

\* The clock advances.
Tick ==
  /\ now < MaxTime
  /\ now' = now + 1
  /\ UNCHANGED <<settings, llmCacheConfig, llmCache, llmCacheStats, inited,
                 sweeper, readers, locals, ret, last, nops, found, keyVars,
                 mirrorVars, listed>>

\* ------------------------------------------------------------- GetLLMCache
\* Entry: the LLMCacheEnabled test, then RLock.
GetBegin(t, k) ==
  /\ Idle(t)
  /\ nops' = nops + 1
  /\ IF ~LLMCacheEnabled
       THEN /\ Return(t, "GetLLMCache", "disabled")
            /\ UNCHANGED <<readers, locals>>
       ELSE /\ readers' = readers + 1
            /\ pc' = [pc EXCEPT ![t] = "get_rlocked"]
            /\ tkey' = [tkey EXCEPT ![t] = k]
            /\ UNCHANGED <<tmp, titem, ret, last>>
  /\ UNCHANGED <<settings, llmCacheConfig, llmCache, llmCacheStats, inited,
                 sweeper, now, found, keyVars,
                 mirrorVars, listed>>

\* The expiry test with >= for >.
ExpiredAtBoundary(item, clock) == clock >= item.ExpiresAt

\* if time.Now().Unix() > item.ExpiresAt
Expired(item, clock) == clock > item.ExpiresAt

\* item, exists := llmCache[key], and the branch taken: a miss reads Misses,
\* an expired item makes the goroutine drop its read lock, a hit reads
\* item.HitCount.
GetLookup(t) ==
  /\ pc[t] = "get_rlocked"
  /\ IF tkey[t] \notin DOMAIN llmCache
       THEN /\ tmp' = [tmp EXCEPT ![t] = llmCacheStats.Misses]
            /\ pc' = [pc EXCEPT ![t] = "get_miss"]
            /\ UNCHANGED readers
       ELSE IF Expired(llmCache[tkey[t]], now)
       THEN /\ readers' = readers - 1
            /\ pc' = [pc EXCEPT ![t] = "get_expired"]
            /\ UNCHANGED tmp
       ELSE /\ tmp' = [tmp EXCEPT ![t] = llmCache[tkey[t]].HitCount]
            /\ pc' = [pc EXCEPT ![t] = "get_hit"]
            /\ UNCHANGED readers
  /\ UNCHANGED <<settings, llmCacheConfig, llmCache, llmCacheStats, inited,
                 sweeper, now, tkey, titem, ret, last, nops, found, keyVars,
                 mirrorVars, listed>>

\* Lock(); delete(llmCache, key); llmCacheStats.TotalItems--; Unlock()
GetPurge(t) ==
  /\ pc[t] = "get_expired"
  /\ CanLock
  /\ llmCache' = Remove(llmCache, tkey[t])
  /\ llmCacheStats' =
       [llmCacheStats EXCEPT !.TotalItems = llmCacheStats.TotalItems - 1]
  /\ pc' = [pc EXCEPT ![t] = "get_purged"]
  /\ listed' = StillListed({tkey[t]})
  /\ UNCHANGED <<settings, llmCacheConfig, inited, sweeper, now, readers,
                 tkey, tmp, titem, ret, last, nops, found, keyVars,
                 mirrorVars>>

\* The return path without the second RLock().
GetRelockNoRLock(t) ==
  /\ pc[t] = "get_purged"
  /\ tmp' = [tmp EXCEPT ![t] = llmCacheStats.Misses]
  /\ pc' = [pc EXCEPT ![t] = "get_expired_miss"]
  /\ UNCHANGED <<settings, llmCacheConfig, llmCache, llmCacheStats, inited,
                 sweeper, now, readers, tkey, titem, ret, last, nops, found,
                 keyVars, mirrorVars, listed>>

\* RLock() again, and the read of Misses.
GetRelock(t) ==
  /\ pc[t] = "get_purged"
  /\ readers' = readers + 1
  /\ tmp' = [tmp EXCEPT ![t] = llmCacheStats.Misses]
  /\ pc' = [pc EXCEPT ![t] = "get_expired_miss"]
  /\ UNCHANGED <<settings, llmCacheConfig, llmCache, llmCacheStats, inited,
                 sweeper, now, tkey, titem, ret, last, nops, found, keyVars,
                 mirrorVars, listed>>

\* The write of llmCacheStats.Misses++, return nil, false, deferred RUnlock.
GetMiss(t) ==
  /\ pc[t] \in {"get_miss", "get_expired_miss"}
  /\ llmCacheStats' = [llmCacheStats EXCEPT !.Misses = tmp[t] + 1]
  /\ readers' = readers - 1
  /\ Return(t, "GetLLMCache",
            IF pc[t] = "get_miss" THEN "absent" ELSE "expired")
  /\ Reset(t)
  /\ UNCHANGED <<settings, llmCacheConfig, llmCache, inited, sweeper, now,
                 nops, found, keyVars,
                 mirrorVars, listed>>

\* The write of item.HitCount++.
GetHitCount(t) ==
  /\ pc[t] = "get_hit"
  /\ llmCache' = [llmCache EXCEPT ![tkey[t]].HitCount = tmp[t] + 1]
  /\ pc' = [pc EXCEPT ![t] = "get_hit_time"]
  /\ UNCHANGED <<settings, llmCacheConfig, llmCacheStats, inited, sweeper,
                 now, readers, tkey, tmp, titem, ret, last, nops, found, keyVars,
                 mirrorVars, listed>>

\* item.LastAccessed = time.Now().Unix(), and the read of Hits.
GetHitTime(t) ==
  /\ pc[t] = "get_hit_time"
  /\ llmCache' = [llmCache EXCEPT ![tkey[t]].LastAccessed = now]
  /\ tmp' = [tmp EXCEPT ![t] = llmCacheStats.Hits]
  /\ pc' = [pc EXCEPT ![t] = "get_hit_stats"]
  /\ UNCHANGED <<settings, llmCacheConfig, llmCacheStats, inited, sweeper,
                 now, readers, tkey, titem, ret, last, nops, found, keyVars,
                 mirrorVars, listed>>

\* The write of llmCacheStats.Hits++, return item, true, deferred RUnlock.
GetHit(t) ==
  /\ pc[t] = "get_hit_stats"
  /\ llmCacheStats' = [llmCacheStats EXCEPT !.Hits = tmp[t] + 1]
  /\ readers' = readers - 1
  /\ Return(t, "GetLLMCache", "found")
  /\ found' = found + 1
  /\ Reset(t)
  /\ UNCHANGED <<settings, llmCacheConfig, llmCache, inited, sweeper, now,
                 nops, keyVars,
                 mirrorVars, listed>>

\* ------------------------------------------------------------- SetLLMCache
\* responseText: "" without a choice, else the first choice's content.
ResponseTextLen(response) ==
  IF response.Choices > 0 THEN response.Len ELSE 0

\* The length test with <= for <.
LengthRejectedAtMin(len) ==
  len <= LLMCacheMinResponseLength \/ len > LLMCacheMaxResponseLength

\* The length test of SetLLMCache.
LengthRejected(len) ==
  len < LLMCacheMinResponseLength \/ len > LLMCacheMaxResponseLength

\* item := &LLMCacheItem{...}
NewItem(clock) ==
  [CreatedAt |-> clock, ExpiresAt |-> clock + LLMCacheTTL, HitCount |-> 0,
   LastAccessed |-> clock]

\* Everything before llmCacheMutex.Lock(): the enabled test, the length test,
\* the item built from time.Now().
SetBegin(t, k, response) ==
  /\ Idle(t)
  /\ nops' = nops + 1
  /\ IF ~LLMCacheEnabled
       THEN /\ Return(t, "SetLLMCache", "disabled")
            /\ UNCHANGED locals
       ELSE IF LengthRejected(ResponseTextLen(response))
       THEN /\ Return(t, "SetLLMCache", "skipped")
            /\ UNCHANGED locals
       ELSE /\ pc' = [pc EXCEPT ![t] = "set_lock"]
            /\ tkey' = [tkey EXCEPT ![t] = k]
            /\ titem' = [titem EXCEPT ![t] = NewItem(now)]
            /\ UNCHANGED <<tmp, ret, last>>
  /\ UNCHANGED <<settings, llmCacheConfig, llmCache, llmCacheStats, inited,
                 sweeper, now, readers, found, keyVars,
                 mirrorVars, listed>>

\* The orders in which a range loop may visit the keys of a map.
Orders(S) == {o \in [1..Cardinality(S) -> S] : \A k \in S : \E i \in DOMAIN o : o[i] = k}

\* The loop of evictLRU over the keys in the order o, from position i on:
\* the key it ends with (NoKey is the "" oldestKey starts as).
RECURSIVE EvictScan(_, _, _, _, _)
EvictScan(cache, o, i, oldestKey, oldestTime) ==
  IF i > Len(o) THEN oldestKey
  ELSE IF cache[o[i]].LastAccessed < oldestTime
    THEN EvictScan(cache, o, i + 1, o[i], cache[o[i]].LastAccessed)
    ELSE EvictScan(cache, o, i + 1, oldestKey, oldestTime)

\* evictLRU: oldestTime starts at time.Now().Unix().
OldestKey(cache, o, clock) == EvictScan(cache, o, 1, NoKey, clock)

\* evictLRU on the map and the counters: the item found oldest, if any, is
\* deleted and Evictions incremented.
evictLRU(cache, stats, o, clock) ==
  LET oldestKey == OldestKey(cache, o, clock)
  IN  IF oldestKey # NoKey
        THEN [cache |-> Remove(cache, oldestKey),
              stats |-> [stats EXCEPT !.Evictions = stats.Evictions + 1]]
        ELSE [cache |-> cache, stats |-> stats]

\* if len(llmCache) >= LLMCacheMaxSize
AtCapacity(cache) == Size(cache) >= LLMCacheMaxSize

\* The locked section of SetLLMCache entered only once the goroutines
\* started before have finished with Redis.
SetCommitAfterRedis(t) ==
  /\ pc[t] = "set_lock"
  /\ CanLock
  /\ tasks = NoTasks
  /\ \E o \in Orders(DOMAIN llmCache) :
       LET e == IF AtCapacity(llmCache)
                  THEN evictLRU(llmCache, llmCacheStats, o, now)
                  ELSE [cache |-> llmCache, stats |-> llmCacheStats]
       IN  /\ llmCache' = Put(e.cache, tkey[t], titem[t])
           /\ llmCacheStats' =
                [e.stats EXCEPT !.TotalItems = e.stats.TotalItems + 1]
           /\ listed' =
                StillListed((DOMAIN llmCache \ DOMAIN e.cache) \cup {tkey[t]})
  /\ Spawn(SetTask(tkey[t]), {}, {tkey[t]})
  /\ Return(t, "SetLLMCache", "stored")
  /\ Reset(t)
  /\ UNCHANGED <<settings, llmCacheConfig, inited, sweeper, now, readers,
                 nops, found, keyVars, RedisEnabled, RedisFails, mirror>>

\* The section of SetLLMCache under the write lock.
SetCommit(t) ==
  /\ pc[t] = "set_lock"
  /\ CanLock
  /\ \E o \in Orders(DOMAIN llmCache) :
       LET e == IF AtCapacity(llmCache)
                  THEN evictLRU(llmCache, llmCacheStats, o, now)
                  ELSE [cache |-> llmCache, stats |-> llmCacheStats]
       IN  /\ llmCache' = Put(e.cache, tkey[t], titem[t])
           /\ llmCacheStats' =
                [e.stats EXCEPT !.TotalItems = e.stats.TotalItems + 1]
           /\ listed' =
                StillListed((DOMAIN llmCache \ DOMAIN e.cache) \cup {tkey[t]})
  /\ Spawn(SetTask(tkey[t]), {}, {tkey[t]})
  /\ Return(t, "SetLLMCache", "stored")
  /\ Reset(t)
  /\ UNCHANGED <<settings, llmCacheConfig, inited, sweeper, now, readers,
                 nops, found, keyVars, RedisEnabled, RedisFails, mirror>>

\* ------------------------------------------------------- cleanExpiredCache
\* The pass with now >= item.ExpiresAt for now > item.ExpiresAt.
SweeperTickAtBoundary ==
  /\ sweeper
  /\ CanLock
  /\ LET expired == {k \in DOMAIN llmCache : now >= llmCache[k].ExpiresAt}
     IN  /\ expired # {}
         /\ llmCache' = [k \in DOMAIN llmCache \ expired |-> llmCache[k]]
         /\ llmCacheStats' =
              [llmCacheStats EXCEPT
                 !.TotalItems = llmCacheStats.TotalItems - Cardinality(expired)]
         /\ listed' = StillListed(expired)
  /\ last' = "cleanExpiredCache"
  /\ UNCHANGED <<settings, llmCacheConfig, inited, sweeper, now, readers,
                 locals, ret, nops, found, keyVars, mirrorVars>>

\* One pass of the ticker loop, under the write lock.
SweeperTick ==
  /\ sweeper
  /\ CanLock
  /\ LET expired == {k \in DOMAIN llmCache : Expired(llmCache[k], now)}
     IN  /\ expired # {}
         /\ llmCache' = [k \in DOMAIN llmCache \ expired |-> llmCache[k]]
         /\ llmCacheStats' =
              [llmCacheStats EXCEPT
                 !.TotalItems = llmCacheStats.TotalItems - Cardinality(expired)]
         /\ listed' = StillListed(expired)
  /\ last' = "cleanExpiredCache"
  /\ UNCHANGED <<settings, llmCacheConfig, inited, sweeper, now, readers,
                 locals, ret, nops, found, keyVars, mirrorVars>>

\* ----------------------------------------------------------- ClearLLMCache
ClearLLMCache ==
  /\ inited /\ nops < MaxOps
  /\ CanLock
  /\ nops' = nops + 1
  /\ llmCache' = EmptyCache
  /\ llmCacheStats' = ZeroStats
  /\ listed' = EmptyCache
  /\ Spawn(ClearTask, DOMAIN llmCache, {})
  /\ last' = "ClearLLMCache"
  /\ found' = 0
  /\ UNCHANGED <<settings, llmCacheConfig, inited, sweeper, now, readers,
                 locals, ret, keyVars, RedisEnabled, RedisFails, mirror>>

\* ------------------------------------------------------ DeleteLLMCacheItem
\* DeleteLLMCacheItem counting the removal as an eviction.
DeleteLLMCacheItemAsEviction(k) ==
  /\ inited /\ nops < MaxOps
  /\ CanLock
  /\ nops' = nops + 1
  /\ IF k \in DOMAIN llmCache
       THEN /\ llmCache' = Remove(llmCache, k)
            /\ llmCacheStats' =
                 [llmCacheStats EXCEPT
                    !.TotalItems = llmCacheStats.TotalItems - 1,
                    !.Evictions = llmCacheStats.Evictions + 1]
            /\ listed' = StillListed({k})
            /\ Spawn(DelTask(k), {k}, {})
       ELSE UNCHANGED <<llmCache, llmCacheStats, listed, tasks, deleted>>
  /\ last' = "DeleteLLMCacheItem"
  /\ UNCHANGED <<settings, llmCacheConfig, inited, sweeper, now, readers,
                 locals, ret, found, keyVars, RedisEnabled, RedisFails, mirror>>

DeleteLLMCacheItem(k) ==
  /\ inited /\ nops < MaxOps
  /\ CanLock
  /\ nops' = nops + 1
  /\ IF k \in DOMAIN llmCache
       THEN /\ llmCache' = Remove(llmCache, k)
            /\ llmCacheStats' =
                 [llmCacheStats EXCEPT !.TotalItems = llmCacheStats.TotalItems - 1]
            /\ listed' = StillListed({k})
            /\ Spawn(DelTask(k), {k}, {})
       ELSE UNCHANGED <<llmCache, llmCacheStats, listed, tasks, deleted>>
  /\ last' = "DeleteLLMCacheItem"
  /\ UNCHANGED <<settings, llmCacheConfig, inited, sweeper, now, readers,
                 locals, ret, found, keyVars, RedisEnabled, RedisFails, mirror>>

\* ---------------------------------------------------- UpdateLLMCacheConfig
\* UpdateLLMCacheConfig that empties the map and keeps the counters.
UpdateLLMCacheConfigKeepStats(config) ==
  /\ inited /\ nops < MaxOps
  /\ CanLock
  /\ nops' = nops + 1
  /\ llmCacheConfig' = config
  /\ IF ~config.Enabled
       THEN /\ llmCache' = EmptyCache
            /\ listed' = EmptyCache
            /\ UNCHANGED <<llmCacheStats, found>>
       ELSE UNCHANGED <<llmCache, llmCacheStats, found, listed>>
  /\ last' = "UpdateLLMCacheConfig"
  /\ UNCHANGED <<settings, inited, sweeper, now, readers, locals, ret,
                 keyVars, mirrorVars>>

UpdateLLMCacheConfig(config) ==
  /\ inited /\ nops < MaxOps
  /\ CanLock
  /\ nops' = nops + 1
  /\ llmCacheConfig' = config
  /\ IF ~config.Enabled
       THEN /\ llmCache' = EmptyCache
            /\ llmCacheStats' = ZeroStats
            /\ found' = 0
            /\ listed' = EmptyCache
       ELSE UNCHANGED <<llmCache, llmCacheStats, found, listed>>
  /\ last' = "UpdateLLMCacheConfig"
  /\ UNCHANGED <<settings, inited, sweeper, now, readers, locals, ret,
                 keyVars, mirrorVars>>

\* ------------------------------------------------------- read-only callers
\* GetLLMCacheStats without stats.TotalItems = int64(len(llmCache)): the
\* count the handlers keep is reported.
GetLLMCacheStatsTracked ==
  [TotalItems |-> llmCacheStats.TotalItems, Hits |-> llmCacheStats.Hits,
   Misses |-> llmCacheStats.Misses, Evictions |-> llmCacheStats.Evictions,
   MaxSize |-> LLMCacheMaxSize]

\* GetLLMCacheStats: a copy of the counters with TotalItems and MaxSize
\* overwritten.
GetLLMCacheStats ==
  [TotalItems |-> Size(llmCache), Hits |-> llmCacheStats.Hits,
   Misses |-> llmCacheStats.Misses, Evictions |-> llmCacheStats.Evictions,
   MaxSize |-> LLMCacheMaxSize]

\* Whether a call of GetLLMCache(k) starting now, alone, returns found.
Findable(k) ==
  /\ LLMCacheEnabled
  /\ k \in DOMAIN llmCache
  /\ ~Expired(llmCache[k], now)

\* ----------------------------------------------------------- specification
Next ==
  \/ InitLLMCache
  \/ Tick
  \/ \E t \in Threads, k \in Keys : GetBegin(t, k)
  \/ \E t \in Threads : GetLookup(t)
  \/ \E t \in Threads : GetPurge(t)
  \/ \E t \in Threads : GetRelock(t)
  \/ \E t \in Threads : GetMiss(t)
  \/ \E t \in Threads : GetHitCount(t)
  \/ \E t \in Threads : GetHitTime(t)
  \/ \E t \in Threads : GetHit(t)
  \/ \E t \in Threads, k \in Keys, response \in Responses : SetBegin(t, k, response)
  \/ \E t \in Threads : SetCommit(t)
  \/ SweeperTick
  \/ ClearLLMCache
  \/ \E k \in Keys : DeleteLLMCacheItem(k)
  \/ \E config \in Configs : UpdateLLMCacheConfig(config)

Spec == Init /\ [][Next]_vars

\* ------------------------------------------------- the detached goroutines
\* Everything but the bag of goroutines and Redis.
primaryVars ==
  <<settings, llmCacheConfig, llmCache, llmCacheStats, inited, sweeper, now,
    readers, locals, ret, last, nops, found, keyVars, RedisEnabled,
    RedisFails, deleted, listed>>

Done(task) == tasks (-) SetToBag({task})

\* The goroutine of SetLLMCache: json.Marshal(item), then
\* common.RedisSetEx(key, string(jsonData), int(LLMCacheTTL)).
RedisSetTask(k) ==
  /\ BagIn(SetTask(k), tasks)
  /\ tasks' = Done(SetTask(k))
  /\ mirror' = RedisSetEx(mirror, k, LLMCacheTTL, now)
  /\ UNCHANGED primaryVars

\* go common.RedisDel(key)
RedisDelTask(k) ==
  /\ BagIn(DelTask(k), tasks)
  /\ tasks' = Done(DelTask(k))
  /\ mirror' = RedisDel(mirror, k, now)
  /\ UNCHANGED primaryVars

\* keys, err := common.RedisKeys("llm_cache:*") in the goroutine of
\* ClearLLMCache: every key of Redis is a cache key.
RedisClearKeys ==
  /\ BagIn(ClearTask, tasks)
  /\ LET keys == RedisKeys(mirror, now)
     IN  tasks' = IF keys = {} THEN Done(ClearTask)
                  ELSE Done(ClearTask) (+) SetToBag({ClearDelTask(keys)})
  /\ UNCHANGED <<mirror, primaryVars>>

\* One round of for _, key := range keys { common.RedisDel(key) }, the
\* goroutine holding the list S.
RedisClearDel(S, k) ==
  /\ BagIn(ClearDelTask(S), tasks)
  /\ k \in S
  /\ tasks' = IF S = {k} THEN Done(ClearDelTask(S))
               ELSE Done(ClearDelTask(S)) (+) SetToBag({ClearDelTask(S \ {k})})
  /\ mirror' = RedisDel(mirror, k, now)
  /\ UNCHANGED primaryVars

\* A call to Redis fails and the goroutine, which drops every error, goes
\* on: a set, a delete or the listing ends the goroutine, a failed delete
\* inside the loop of a clearing goroutine takes it to the next key.
RedisCallFails(task) ==
  /\ RedisFails
  /\ BagIn(task, tasks)
  /\ IF task.op = "clear_del"
       THEN \E k \in task.keys :
              tasks' = IF task.keys = {k} THEN Done(task)
                       ELSE Done(task) (+) SetToBag({ClearDelTask(task.keys \ {k})})
       ELSE tasks' = Done(task)
  /\ UNCHANGED <<mirror, primaryVars>>

\* Redis is configured; it may be failing.
MirrorInit ==
  /\ CacheInit
  /\ RedisEnabled = TRUE /\ RedisFails \in BOOLEAN
  /\ r1 = BaseRequest /\ r2 = BaseRequest
  /\ k1 = NoKey /\ k2 = NoKey

MirrorNext ==
  \/ Next
  \/ \E k \in Keys : RedisSetTask(k)
  \/ \E k \in Keys : RedisDelTask(k)
  \/ RedisClearKeys
  \/ \E S \in SUBSET Keys, k \in Keys : RedisClearDel(S, k)
  \/ \E task \in BagToSet(tasks) : RedisCallFails(task)

SpecMirror == MirrorInit /\ [][MirrorNext]_vars

\* ------------------------------------------------------------- scheduling
\* A step of goroutine t inside GetLLMCache or SetLLMCache.
ThreadStep(t) ==
  \/ GetLookup(t) \/ GetPurge(t) \/ GetRelock(t) \/ GetMiss(t)
  \/ GetHitCount(t) \/ GetHitTime(t) \/ GetHit(t) \/ SetCommit(t)

\* The positions at which a goroutine holds llmCacheMutex.RLock.
ReadLocked ==
  {"get_rlocked", "get_miss", "get_expired_miss", "get_hit", "get_hit_time",
   "get_hit_stats"}

\* The scheduler runs every goroutine that can run. A goroutine waiting in
\* llmCacheMutex.Lock() gets the lock although readers come and go
\* (sync.RWMutex holds new readers back once a writer waits), hence strong
\* fairness; for the steps that need no lock, which stay enabled until
\* taken, it is no more than weak fairness. The sweeper's ticker keeps
\* firing.
Fairness ==
  /\ \A t \in Threads : SF_vars(ThreadStep(t))
  /\ SF_vars(SweeperTick)

SpecFair == Spec /\ Fairness

\* -------------------------------------------------------- GetLLMCacheItems
\* Under the read lock the *LLMCacheItem pointers of the map are appended to a
\* new slice, which is returned: the caller holds pointers to the stored
\* items. listed records what the items held when the call returned.
GetLLMCacheItems ==
  /\ inited /\ nops < MaxOps
  /\ nops' = nops + 1
  /\ listed' = llmCache
  /\ last' = "GetLLMCacheItems"
  /\ UNCHANGED <<settings, llmCacheConfig, llmCache, llmCacheStats, inited,
                 sweeper, now, readers, locals, ret, found, keyVars,
                 mirrorVars>>

\* What the caller of GetLLMCacheItems reads through the pointer it was
\* given for key k.
ListedItem(k) == llmCache[k]

\* The cache with an administrator who also lists the items.
ListNext == Next \/ GetLLMCacheItems

SpecList == Init /\ [][ListNext]_vars

\* ---------------------------------------------- GenerateCacheKey, applied
\* Two requests are drawn and GenerateCacheKey is applied to each, in either
\* order; the cache stays as it started.
cacheVars ==
  <<settings, llmCacheConfig, llmCache, llmCacheStats, inited, sweeper, now,
    readers, locals, ret, last, nops, found, mirrorVars, listed>>

KeyInit ==
  /\ CacheInit
  /\ RedisEnabled = FALSE /\ RedisFails = FALSE
  /\ r1 \in Requests /\ r2 \in Requests
  /\ k1 = NoKey /\ k2 = NoKey

NewRequest1 ==
  /\ k1 # NoKey
  /\ r1' \in Requests
  /\ k1' = NoKey
  /\ UNCHANGED <<r2, k2, cacheVars>>

NewRequest2 ==
  /\ k2 # NoKey
  /\ r2' \in Requests
  /\ k2' = NoKey
  /\ UNCHANGED <<r1, k1, cacheVars>>

Fingerprint1 ==
  /\ k1 = NoKey
  /\ k1' = GenerateCacheKey(r1)
  /\ UNCHANGED <<r1, r2, k2, cacheVars>>

Fingerprint2 ==
  /\ k2 = NoKey
  /\ k2' = GenerateCacheKey(r2)
  /\ UNCHANGED <<r1, r2, k1, cacheVars>>

KeyNext == NewRequest1 \/ NewRequest2 \/ Fingerprint1 \/ Fingerprint2

SpecKey == KeyInit /\ [][KeyNext]_vars

\* ------------------------------------------------------------------ claims
\* The step of goroutine t that runs SetLLMCache's locked section.
CommitStep(t) == pc[t] = "set_lock" /\ pc'[t] = "idle"

\* C1. Capacity bound: once an insert has returned, the store never holds
\* more than LLMCacheMaxSize entries.  (The store only grows in the locked
\* section of SetLLMCache, so this is a bound on every state.)
CapacityBound == Size(llmCache) <= LLMCacheMaxSize

LRUCorrect ==
  [][\A t \in Threads :
       (/\ CommitStep(t)
        /\ Size(llmCache) >= LLMCacheMaxSize
        /\ \A j, k \in DOMAIN llmCache :
              j # k => llmCache[j].LastAccessed # llmCache[k].LastAccessed)
       => \E v \in DOMAIN llmCache :
            /\ \A k \in DOMAIN llmCache :
                  llmCache[v].LastAccessed <= llmCache[k].LastAccessed
            /\ DOMAIN llmCache' = (DOMAIN llmCache \ {v}) \cup {tkey[t]}
            /\ \A k \in DOMAIN llmCache \ {v, tkey[t]} :
                  llmCache'[k] = llmCache[k]]_vars

\* C4. An accepted insert that finds size >= maxEntries removes exactly one
\* stored item and adds one to Evictions; one that finds size < maxEntries
\* removes nothing and leaves Evictions as it was.
EvictExactlyOne ==
  [][\A t \in Threads :
       CommitStep(t)
       => IF Size(llmCache) >= LLMCacheMaxSize
            THEN /\ llmCacheStats'.Evictions = llmCacheStats.Evictions + 1
                 /\ \E v \in DOMAIN llmCache :
                      DOMAIN llmCache' = (DOMAIN llmCache \ {v}) \cup {tkey[t]}
            ELSE /\ llmCacheStats'.Evictions = llmCacheStats.Evictions
                 /\ DOMAIN llmCache' = DOMAIN llmCache \cup {tkey[t]}]_vars

\* C5. Right after UpdateLLMCacheConfig with Enabled = false has returned (no
\* other call has returned since), no key is findable, stats().TotalItems is
\* 0 and Hits, Misses and Evictions are 0.
DisableClears ==
  (last = "UpdateLLMCacheConfig" /\ ~llmCacheConfig.Enabled)
  => /\ \A k \in Keys : ~Findable(k)
     /\ GetLLMCacheStats.TotalItems = 0
     /\ GetLLMCacheStats.Hits = 0
     /\ GetLLMCacheStats.Misses = 0
     /\ GetLLMCacheStats.Evictions = 0

\* C5, witness: a lookup had found a stored key, and the call that returned
\* last is an UpdateLLMCacheConfig that disabled the cache.
DisableWitness ==
  /\ last = "UpdateLLMCacheConfig"
  /\ ~llmCacheConfig.Enabled
  /\ \E t \in Threads : ret[t] = "found"

\* C6. While the configuration has Enabled = false, the store is empty and
\* no key is findable, whatever inserts and lookups were made.
DisabledIsInert ==
  ~llmCacheConfig.Enabled
  => (llmCache = EmptyCache /\ \A k \in Keys : ~Findable(k))

\* C7. Once UpdateLLMCacheConfig(c) has returned, stats().MaxSize is
\* c.MaxSize and an insert builds its item with ExpiresAt = CreatedAt + c.TTL.
ConfigIsUsed ==
  [][llmCacheConfig # DefaultConfig
     => /\ GetLLMCacheStats.MaxSize = llmCacheConfig.MaxSize
        /\ \A t \in Threads :
             (pc[t] = "idle" /\ pc'[t] = "set_lock")
             => titem'[t].ExpiresAt = titem'[t].CreatedAt + llmCacheConfig.TTL]_vars

\* C8. On an enabled cache, an insert whose response text is shorter than
\* LLMCacheMinResponseLength or longer than LLMCacheMaxResponseLength (no
\* choice: length 0) returns with the store and the counters unchanged; any
\* other length, the bounds included, goes on to the locked section, which
\* stores the item under the key.
LengthGating ==
  [][\A t \in Threads :
       /\ (LLMCacheEnabled /\ pc[t] = "idle" /\ nops' # nops
            /\ (pc'[t] = "set_lock" \/ ret'[t] = "skipped"))
          => \A k \in Keys, response \in Responses :
               SetBegin(t, k, response)
               => LET len == IF response.Choices = 0 THEN 0 ELSE response.Len
                  IN  IF len < LLMCacheMinResponseLength
                         \/ len > LLMCacheMaxResponseLength
                        THEN /\ pc'[t] = "idle" /\ ret'[t] = "skipped"
                             /\ llmCache' = llmCache
                             /\ llmCacheStats' = llmCacheStats
                        ELSE /\ pc'[t] = "set_lock" /\ tkey'[t] = k
                             /\ llmCache' = llmCache
       /\ CommitStep(t) => tkey[t] \in DOMAIN llmCache']_vars

\* C8, witness: one insert was skipped for its length and another stored
\* its item.
LengthGatingWitness ==
  \E t, u \in Threads : ret[t] = "skipped" /\ ret[u] = "stored"

\* C9. Once every lookup has returned, Hits is the number of lookups that
\* returned found since the counters were last reset.
HitAccounting ==
  (\A t \in Threads : pc[t] = "idle") => llmCacheStats.Hits = found

\* The fields GenerateCacheKey is to depend on.
KeyFields ==
  {"Model", "Messages", "MaxTokens", "Temperature", "TopP",
   "FrequencyPenalty", "PresencePenalty", "Stream"}

\* C10. Two requests get the same key exactly when they agree on model,
\* messages, max-tokens, temperature, top-p, both penalties and stream,
\* whatever their other fields and whichever key was computed first; every
\* non-empty key starts with the namespace prefix.
KeyDeterminism ==
  /\ (k1 # NoKey /\ k2 # NoKey)
     => ((\A f \in KeyFields : r1[f] = r2[f]) <=> k1 = k2)
  /\ k1 # NoKey => k1[1] = "llm_cache:"
  /\ k2 # NoKey => k2[1] = "llm_cache:"

\* C10, witness: two requests that differ (in a field outside the key) have
\* got the same key.
KeyWitness ==
  /\ k1 # NoKey /\ k2 # NoKey
  /\ r1 # r2
  /\ k1 = k2

\* C11. Item count: in every state the TotalItems of the snapshot that
\* GetLLMCacheStats returns is the number of entries the map holds in that
\* state, whatever the handlers have done to the counter they keep.
ItemCount == GetLLMCacheStats.TotalItems = Cardinality(DOMAIN llmCache)

\* The kept counter has drifted from the map: an insert under a stored key
\* has counted the key twice.
ItemCountWitness ==
  /\ Cardinality(DOMAIN llmCache) = 1
  /\ llmCacheStats.TotalItems = 2
  /\ \A t \in Threads : pc[t] = "idle"

\* C12. Monotone counters: a step that is neither ClearLLMCache nor an
\* UpdateLLMCacheConfig with Enabled false leaves each of Hits, Misses and
\* Evictions at least as large as it was, so that no two snapshots taken
\* between two resets show a counter going down.
CountersMonotone ==
  [][\/ ClearLLMCache
     \/ \E config \in Configs : ~config.Enabled /\ UpdateLLMCacheConfig(config)
     \/ /\ llmCacheStats'.Hits >= llmCacheStats.Hits
        /\ llmCacheStats'.Misses >= llmCacheStats.Misses
        /\ llmCacheStats'.Evictions >= llmCacheStats.Evictions]_vars

\* C13. No aliasing: every item of a GetLLMCacheItems result reads, at any
\* later time, as it read when the call returned, whatever the cache has done
\* since.
ListedIsCopy == \A k \in DOMAIN listed : ListedItem(k) = listed[k]

\* C14. Deadlock freedom: in every state llmCacheMutex is read-locked exactly
\* as many times as there are goroutines inside a read-locked section (so it
\* is free whenever no call is in progress, the lookup that went through
\* RUnlock, Lock, Unlock, RLock included), and under fair scheduling every
\* call of GetLLMCache or SetLLMCache that has started returns.
LockBalancedAndCallsReturn ==
  /\ [](readers = Cardinality({t \in Threads : pc[t] \in ReadLocked}))
  /\ \A t \in Threads : (pc[t] # "idle") ~> (pc[t] = "idle")

\* A lookup has gone through the escalation and returned, with a writer
\* waiting for the lock the lookup held.
EscalationWitness ==
  \E t, u \in Threads :
    /\ ret[t] = "expired" /\ pc[t] = "idle"
    /\ pc[u] = "set_lock"
    /\ readers = 0

\* A step of a detached Redis goroutine: the bag of goroutines or Redis
\* changes and no handler moves.
RedisStep ==
  /\ <<tasks, mirror>>' # <<tasks, mirror>>
  /\ UNCHANGED <<nops, pc>>

\* C15. Mirror isolation: with Redis configured, prompt or slow, working or
\* failing, (1) a step of a Redis goroutine, successful or not, changes
\* nothing of the map, the counters, the lock, the configuration or what a
\* call returns; (2) a lookup takes the miss branch exactly when the map
\* lacks the key, and the hit or expiry branch by the map's item alone,
\* whatever Redis holds; (3) a handler that needs llmCacheMutex proceeds as
\* soon as the lock allows, whatever goroutines are still running.
MirrorIsolation ==
  /\ [][RedisStep =>
          UNCHANGED <<settings, llmCacheConfig, llmCache, llmCacheStats,
                      inited, sweeper, now, readers, locals, ret, last, nops,
                      found>>]_vars
  /\ [][\A t \in Threads :
          (pc[t] = "get_rlocked" /\ pc'[t] # "get_rlocked") =>
             pc'[t] = IF tkey[t] \notin DOMAIN llmCache THEN "get_miss"
                      ELSE IF now > llmCache[tkey[t]].ExpiresAt
                        THEN "get_expired"
                        ELSE "get_hit"]_vars
  /\ [](\A t \in Threads :
          /\ pc[t] = "get_rlocked" => ENABLED GetLookup(t)
          /\ (pc[t] = "get_expired" /\ readers = 0) => ENABLED GetPurge(t)
          /\ (pc[t] = "set_lock" /\ readers = 0) => ENABLED SetCommit(t)
          /\ (pc[t] = "idle" /\ inited /\ nops < MaxOps) =>
                \A k \in Keys : ENABLED GetBegin(t, k))
  /\ []((inited /\ nops < MaxOps /\ readers = 0) =>
          /\ ENABLED ClearLLMCache
          /\ \A k \in Keys : ENABLED DeleteLLMCacheItem(k))

\* A lookup is about to report a miss for a key that Redis holds, while a
\* goroutine is still to run.
MirrorIsolationWitness ==
  \E t \in Threads :
    /\ pc[t] = "get_miss"
    /\ tkey[t] \in RedisKeys(mirror, now)
    /\ tasks # NoTasks

\* C16. Lazy-expiry escalation loses no update: the locked section that a
\* lookup runs after it found the item under its key expired removes nothing
\* when the key then holds an item that is not expired (another writer has
\* stored it since), and leaves TotalItems alone when the key holds nothing
\* (another writer has removed the item since).
EscalationLosesNothing ==
  [][\A t \in Threads :
       (pc[t] = "get_expired" /\ pc'[t] = "get_purged") =>
          /\ (tkey[t] \in DOMAIN llmCache
               /\ ~(now > llmCache[tkey[t]].ExpiresAt))
             => llmCache' = llmCache
          /\ tkey[t] \notin DOMAIN llmCache
             => llmCacheStats'.TotalItems = llmCacheStats.TotalItems]_vars

\* The entries of the map whose ExpiresAt satisfies keep.
Kept(keep(_)) ==
  [k \in {j \in DOMAIN llmCache : keep(llmCache[j].ExpiresAt)} |-> llmCache[k]]

LookupCountsOnce ==
  [][\A t \in Threads :
       /\ (pc[t] \in {"get_miss", "get_expired_miss"} /\ pc'[t] = "idle")
          => /\ llmCacheStats'.Misses = llmCacheStats.Misses + 1
             /\ llmCacheStats'.Hits = llmCacheStats.Hits
       /\ (pc[t] = "get_hit_stats" /\ pc'[t] = "idle")
          => /\ llmCacheStats'.Hits = llmCacheStats.Hits + 1
             /\ llmCacheStats'.Misses = llmCacheStats.Misses
       /\ (pc[t] = "idle" /\ ret'[t] = "disabled" /\ nops' # nops)
          => /\ llmCacheStats'.Hits = llmCacheStats.Hits
             /\ llmCacheStats'.Misses = llmCacheStats.Misses]_vars

\* C19. Delete frame: DeleteLLMCacheItem(k) with k stored leaves the map
\* without k and with every other entry as it was, and leaves Hits, Misses
\* and Evictions alone; with k not stored it leaves the map and every counter
\* as they were; either way a second DeleteLLMCacheItem(k) right after would
\* change nothing (k is not stored after the first).
DeleteFrame ==
  [][\A k \in Keys :
       DeleteLLMCacheItem(k) =>
         /\ llmCache' = [j \in DOMAIN llmCache \ {k} |-> llmCache[j]]
         /\ k \notin DOMAIN llmCache'
         /\ llmCacheStats'.Hits = llmCacheStats.Hits
         /\ llmCacheStats'.Misses = llmCacheStats.Misses
         /\ llmCacheStats'.Evictions = llmCacheStats.Evictions
         /\ k \notin DOMAIN llmCache =>
              /\ llmCache' = llmCache
              /\ llmCacheStats' = llmCacheStats
         /\ UNCHANGED <<settings, llmCacheConfig, readers, locals, ret>>]_vars

\* Two inserts have stored two entries and a delete has just removed one of
\* them.
DeleteWitness ==
  /\ last = "DeleteLLMCacheItem"
  /\ \A t \in Threads : ret[t] = "stored" /\ pc[t] = "idle"
  /\ Cardinality(DOMAIN llmCache) = 1
  /\ llmCacheStats.TotalItems = 1

\* C20. Mirror convergence: with Redis never failing, once every detached
\* goroutine has finished, Redis holds no key that DeleteLLMCacheItem or
\* ClearLLMCache removed from the map and that no SetLLMCache has stored
\* since.
MirrorConverges ==
  (~RedisFails /\ tasks = NoTasks) => deleted \cap RedisKeys(mirror, now) = {}

=============================================================================
